---------------------------- MODULE Spec2Model ----------------------------
(***************************************************************************)
(* Model of the polyline codec: the chunk codec of src/src/chunks.rs and   *)
(* the coordinate codec (encode / decode) of src/src/lib.rs.               *)
(*                                                                         *)
(* Representation of machine values                                        *)
(*   - A 32-bit word (u32 or i32) is represented by the integer that its   *)
(*     bit pattern denotes as a two's-complement i32, so `as u32` and      *)
(*     `as i32` are the identity on patterns; the u32 value 2^32 - 1 is    *)
(*     the pattern -1 and 2^31 is the pattern MinI32.  The operators ULe,  *)
(*     LSR, Shl, Not, AddI32 below give the unsigned / wrapping meaning.   *)
(*   - An f64 coordinate is represented exactly, as an integer count of    *)
(*     10^-Digits degrees (on the encode side) or of 10^-precision degrees *)
(*     (on the decode side, where every value the code computes is such a  *)
(*     multiple).  Binary floating-point representation error is not       *)
(*     modelled.                                                           *)
(*   - A string is the sequence of the code points of its chars.           *)
(*   - overflow_checks is the build profile: TRUE when arithmetic overflow *)
(*     panics (debug), FALSE when it wraps (release).                      *)
(***************************************************************************)
EXTENDS Integers, Sequences, FiniteSets, TLC

VARIABLES
    overflow_checks,  \* build profile: does arithmetic overflow panic
    pc,               \* position of the running operation
    element,          \* the u32 handed to Chunks::parse
    chunks,           \* Chunks.chunks
    s,                \* the string returned by Chunks::string
    precision,        \* the precision argument
    delta,            \* the f64 handed to encode_element
    value,            \* the f64 returned by decode_element
    points,           \* the argument of encode
    polyline,         \* the string returned by encode / handed to decode
    pos,              \* decode: index of the next char of the scan
    group,            \* decode: the group buffer
    coordinates,      \* decode: the flat list of decoded deltas
    lines,            \* decode: the groups handed to decode_element so far
    decoded           \* the points returned by decode

vars == <<overflow_checks, pc, element, chunks, s, precision, delta, value,
          points, polyline, pos, group, coordinates, lines, decoded>>

-----------------------------------------------------------------------------
(* Bounds of the model *)

\* decimal digits of the input coordinates (resolution 10^-Digits degrees)
Digits == 6

\* groups after which a slice loop that no longer terminates is cut off
MaxGroups == 9

\* elements 0..MaxSmallElement are fed to the chunk codec exhaustively
MaxSmallElement == 70

\* longest exhaustively enumerated input string of decode
MaxLen == 3

\* longest exhaustively enumerated point sequence of encode
MaxPoints == 4

\* deltas -MaxDelta..MaxDelta are fed to encode_element exhaustively
MaxDelta == 40

-----------------------------------------------------------------------------
(* 32-bit words *)

MaxI32 == (2^30 - 1) + 2^30
MinI32 == (-MaxI32) - 1

\* a <= b on u32 values
ULe(a, b) == IF (a >= 0) = (b >= 0) THEN a <= b ELSE a >= 0

\* x >> k on a u32, 0 <= k <= 31
LSR(x, k) ==
    IF k = 0 THEN x
    ELSE IF x >= 0 THEN x \div (2^k)
    ELSE (x \div (2^k)) + 2^(31 - k) + 2^(31 - k)

\* x << k on a 32-bit word, 0 <= k <= 31: the bits shifted out are lost
Shl(x, k) ==
    IF k = 0 THEN x
    ELSE IF k = 31 THEN (IF x % 2 = 1 THEN MinI32 ELSE 0)
    ELSE LET low == IF k > 1 THEN x % (2^(32 - k))
                    ELSE IF x >= 0 THEN x ELSE (x + MaxI32) + 1
             top == 2^(31 - k)
         IN  IF low >= top THEN (((low - top) * (2^k)) - MaxI32) - 1
             ELSE low * (2^k)

\* !x
Not(x) == (-1) - x

\* does a + b overflow an i32
AddOverflows(a, b) ==
    \/ (a > 0 /\ b > 0 /\ b > MaxI32 - a)
    \/ (a < 0 /\ b < 0 /\ b < MinI32 - a)

\* a + b on i32, wrapping
AddI32(a, b) ==
    IF a > 0 /\ b > 0 /\ b > MaxI32 - a
        THEN ((a - MaxI32) - 1) + ((b - MaxI32) - 1)
    ELSE IF a < 0 /\ b < 0 /\ b < MinI32 - a
        THEN ((a + MaxI32) + 1) + ((b + MaxI32) + 1)
    ELSE a + b

-----------------------------------------------------------------------------
(* Chunks (src/src/chunks.rs) *)

\* Chunks::new
New == << >>

\* the loop of Chunks::slice with the test base.pow(i) < element
RECURSIVE SliceLoopStrict(_, _, _, _)
SliceLoopStrict(elem, i, chunk_slice, checks) ==
    IF i >= 32
    THEN [status |-> "panic", chunks |-> chunk_slice]
    ELSE IF ULe(Shl(1, i), elem) /\ Shl(1, i) # elem
    THEN SliceLoopStrict(elem, i + 5, Append(chunk_slice, LSR(elem, i) % 32), checks)
    ELSE [status |-> "ok", chunks |-> chunk_slice]

\* the while loop of Chunks::slice.  base.pow(i) overflows u32 from i = 32
\* on, which is reached exactly when element >= 2^30: a panic with overflow
\* checks; without them the power wraps to 0, the test 0 <= element always
\* passes and the shift amount is taken modulo 32, so the loop goes on
\* appending groups (for ever when element >= 2^31, otherwise until the
\* wrapping counter i comes back to 31, after 3435973843 iterations).  The
\* model cuts that loop off after MaxGroups groups, with status "runaway".
RECURSIVE SliceLoop(_, _, _, _)
SliceLoop(elem, i, chunk_slice, checks) ==
    IF i >= 32
    THEN IF checks THEN [status |-> "panic", chunks |-> chunk_slice]
         ELSE IF Len(chunk_slice) >= MaxGroups
         THEN [status |-> "runaway", chunks |-> chunk_slice]
         ELSE SliceLoop(elem, i + 5,
                        Append(chunk_slice, LSR(elem, i % 32) % 32), checks)
    ELSE IF ULe(Shl(1, i), elem)
    THEN SliceLoop(elem, i + 5, Append(chunk_slice, LSR(elem, i) % 32), checks)
    ELSE [status |-> "ok", chunks |-> chunk_slice]

\* Chunks::slice
Slice(elem, checks) ==
    IF elem = 0 THEN [status |-> "ok", chunks |-> <<0>>]
    ELSE SliceLoop(elem, 0, << >>, checks)

\* Chunks::parse
Parse(elem, checks) == Slice(elem, checks)

\* e | 0x20 on a non-negative word
Or32(e) == IF (e \div 32) % 2 = 1 THEN e ELSE e + 32

\* Chunks::or marking the last chunk as well
OrMarkAll(cs) == [i \in 1..Len(cs) |-> Or32(cs[i]) + 63]

\* Chunks::or
Or(cs) == [i \in 1..Len(cs) |-> (IF i - 1 < Len(cs) - 1 THEN Or32(cs[i]) ELSE cs[i]) + 63]

\* Chunks::string: the marked chunks and the string of their chars (every
\* marked chunk is at most 31 + 32 + 63, so char::try_from succeeds)
String(cs) == [chunks |-> Or(cs), s |-> Or(cs)]

\* number of bytes of the UTF-8 encoding of a char
LenUtf8(c) == IF c < 128 THEN 1 ELSE IF c < 2048 THEN 2 ELSE IF c < 65536 THEN 3 ELSE 4

RECURSIVE StrLen(_)
\* str::len: the length of a string in bytes
StrLen(line) == IF line = << >> THEN 0 ELSE LenUtf8(Head(line)) + StrLen(Tail(line))

\* Chunks::parse_line.  letter as u32 - 63 underflows for a code point below
\* 63: a panic with overflow checks, the wrapped word without them.
ParseLine(line, checks) ==
    LET line_length == StrLen(line)
        element_int(i) ==
            IF i # line_length - 1 THEN (line[i + 1] - 63) % 32
            ELSE line[i + 1] - 63
    IN  IF checks /\ \E i \in 1..Len(line) : line[i] < 63
        THEN [status |-> "panic", chunks |-> << >>]
        ELSE [status |-> "ok",
              chunks |-> [i \in 1..Len(line) |-> element_int(i - 1)]]

\* the for loop of Chunks::coordinate from index i on.  element << i*5
\* overflows from i*5 = 32 on and result_int += may overflow: a panic with
\* overflow checks, a masked shift amount and a wrapped sum without them.
RECURSIVE CoordinateLoop(_, _, _, _)
CoordinateLoop(cs, i, result_int, checks) ==
    IF i >= Len(cs) THEN [status |-> "ok", result_int |-> result_int]
    ELSE LET term == Shl(cs[i + 1], (i * 5) % 32)
         IN  IF checks /\ (i * 5 >= 32 \/ AddOverflows(result_int, term))
             THEN [status |-> "panic", result_int |-> result_int]
             ELSE CoordinateLoop(cs, i + 1, AddI32(result_int, term), checks)

\* one unit of the last decimal digit kept by a precision, as a count of
\* 10^-Digits: x * 10^precision is x / Unit(precision)
Unit(p) == 10^(Digits - p)

\* Chunks::coordinate without the complement of odd values
CoordinateNoSign(cs, p, checks) ==
    LET r == CoordinateLoop(cs, 0, 0, checks)
    IN  IF r.status # "ok" THEN [status |-> r.status, value |-> 0]
        ELSE [status |-> "ok", value |-> (r.result_int \div 2) * Unit(p)]

\* Chunks::coordinate
Coordinate(cs, p, checks) ==
    LET r == CoordinateLoop(cs, 0, 0, checks)
        undone == IF r.result_int % 2 = 1 THEN Not(r.result_int) ELSE r.result_int
    IN  IF r.status # "ok" THEN [status |-> r.status, value |-> 0]
        ELSE [status |-> "ok", value |-> (undone \div 2) * Unit(p)]

-----------------------------------------------------------------------------
(* Coordinate codec (src/src/lib.rs) *)

\* f64::round of num / den, den > 0: nearest integer, ties away from zero
RoundHalfAway(num, den) ==
    LET a == IF num < 0 THEN -num ELSE num
        q == (a \div den) + (IF 2 * (a % den) >= den THEN 1 ELSE 0)
    IN  IF num < 0 THEN -q ELSE q

\* Point::new
Point(latitude, longitude) == [latitude |-> latitude, longitude |-> longitude]

\* round
Round(n, p) == RoundHalfAway(n, Unit(p)) * Unit(p)

\* the word encode_element hands to Chunks::parse (the cast of the rounded
\* f64 to i32 saturates; every value of the model is within i32)
ElementInt(elem, p) ==
    LET element_int == Shl(RoundHalfAway(elem, Unit(p)), 1)
    IN  IF elem < 0 THEN Not(element_int) ELSE element_int

\* encode_element
EncodeElement(elem, p, checks) ==
    LET c == Parse(ElementInt(elem, p), checks)
    IN  IF c.status # "ok" THEN [status |-> c.status, s |-> << >>]
        ELSE [status |-> "ok", s |-> String(c.chunks).s]

\* decode_element
DecodeElement(grp, p, checks) ==
    LET c == ParseLine(grp, checks)
    IN  IF c.status # "ok" THEN [status |-> c.status, value |-> 0]
        ELSE Coordinate(c.chunks, p, checks)

\* the for loop of encode from index k on (1-based)
RECURSIVE EncodeLoop(_, _, _, _, _, _, _)
EncodeLoop(pts, k, latitude, longitude, encoded, p, checks) ==
    IF k > Len(pts) THEN [status |-> "ok", encoded |-> encoded]
    ELSE LET point == pts[k]
             poly_latitude == EncodeElement(point.latitude - latitude, p, checks)
             poly_longitude == EncodeElement(point.longitude - longitude, p, checks)
         IN  IF poly_latitude.status # "ok"
             THEN [status |-> poly_latitude.status, encoded |-> encoded]
             ELSE IF poly_longitude.status # "ok"
             THEN [status |-> poly_longitude.status, encoded |-> encoded]
             ELSE EncodeLoop(pts, k + 1, point.latitude, point.longitude,
                             encoded \o poly_latitude.s \o poly_longitude.s,
                             p, checks)

\* encode
Encode(pts, p, checks) == EncodeLoop(pts, 1, 0, 0, << >>, p, checks)

\* the test of decode on a scanned letter with the mask 0x10
TerminatesBit4(letter) == ((letter - 63) \div 16) % 2 = 0

\* the test of decode on a scanned letter: (letter as i32 - 63) & 0x20 == 0
Terminates(letter) == ((letter - 63) \div 32) % 2 = 0

\* the pairing loop of decode: (0,1), (2,3), ... while i < coordinates.len()
Pair(coords, p) ==
    [k \in 1..(Len(coords) \div 2) |->
        Point(Round(coords[2 * k - 1], p), Round(coords[2 * k], p))]

\* the accumulation loop of decode from index k on (1-based)
RECURSIVE Accumulate(_, _, _, _, _)
Accumulate(pts, k, latitude, longitude, p) ==
    IF k > Len(pts) THEN pts
    ELSE LET lat == Round(latitude + pts[k].latitude, p)
             lon == Round(longitude + pts[k].longitude, p)
         IN  Accumulate([pts EXCEPT ![k] = Point(lat, lon)], k + 1, lat, lon, p)

-----------------------------------------------------------------------------
(* Actions of the coordinate codec *)

\* encode_element(delta, precision)
EncodeElementStep ==
    /\ pc = "element"
    /\ LET c == Parse(ElementInt(delta, precision), overflow_checks)
           r == EncodeElement(delta, precision, overflow_checks)
       IN  /\ element' = ElementInt(delta, precision)
           /\ chunks' = IF c.status = "ok" THEN String(c.chunks).chunks ELSE c.chunks
           /\ polyline' = r.s
           /\ pc' = IF r.status = "ok" THEN "element_encoded" ELSE r.status
    /\ UNCHANGED <<overflow_checks, s, precision, delta, value, points, pos,
                   group, coordinates, lines, decoded>>

\* decode_element(polyline, precision)
DecodeElementStep ==
    /\ pc = "element_encoded"
    /\ LET c == ParseLine(polyline, overflow_checks)
           r == DecodeElement(polyline, precision, overflow_checks)
       IN  /\ chunks' = c.chunks
           /\ value' = r.value
           /\ pc' = IF r.status = "ok" THEN "element_decoded" ELSE r.status
    /\ UNCHANGED <<overflow_checks, element, s, precision, delta, points,
                   polyline, pos, group, coordinates, lines, decoded>>

\* encode(points, precision)
EncodeStep ==
    /\ pc = "start"
    /\ LET r == Encode(points, precision, overflow_checks)
       IN  /\ polyline' = r.encoded
           /\ pc' = IF r.status = "ok" THEN "ready" ELSE r.status
    /\ UNCHANGED <<overflow_checks, element, chunks, s, precision, delta,
                   value, points, pos, group, coordinates, lines, decoded>>

\* decode(polyline, precision): entry
DecodeEntry ==
    /\ pc = "ready"
    /\ group' = << >>
    /\ coordinates' = << >>
    /\ pos' = 1
    /\ pc' = "scan"
    /\ UNCHANGED <<overflow_checks, element, chunks, s, precision, delta,
                   value, points, polyline, lines, decoded>>

\* decode: one iteration of the scan over polyline.chars()
ScanStep ==
    /\ pc = "scan"
    /\ pos <= Len(polyline)
    /\ LET letter == polyline[pos]
           grp == Append(group, letter)
           r == DecodeElement(grp, precision, overflow_checks)
       IN  IF Terminates(letter)
           THEN /\ lines' = Append(lines, grp)
                /\ IF r.status = "ok"
                   THEN /\ coordinates' = Append(coordinates, r.value)
                        /\ group' = << >>
                        /\ pos' = pos + 1
                        /\ pc' = "scan"
                   ELSE /\ pc' = r.status
                        /\ group' = grp
                        /\ UNCHANGED <<coordinates, pos>>
           ELSE /\ group' = grp
                /\ pos' = pos + 1
                /\ UNCHANGED <<coordinates, lines, pc>>
    /\ UNCHANGED <<overflow_checks, element, chunks, s, precision, delta,
                   value, points, polyline, decoded>>

\* decode: after the scan, pair the deltas, accumulate and return
FinishStep ==
    /\ pc = "scan"
    /\ pos > Len(polyline)
    /\ decoded' = Accumulate(Pair(coordinates, precision), 1, 0, 0, precision)
    /\ pc' = "done"
    /\ UNCHANGED <<overflow_checks, element, chunks, s, precision, delta,
                   value, points, polyline, pos, group, coordinates, lines>>

-----------------------------------------------------------------------------
(* Specification of the chunk codec: parse an element, render it *)

Elements ==
    (0..MaxSmallElement)
    \cup {2^k : k \in 1..30} \cup {2^k - 1 : k \in 1..30}
    \cup {MaxI32, MinI32, -1, MinI32 + 1, 2^30 + 1}

Idle ==
    /\ precision = 5 /\ delta = 0 /\ value = 0
    /\ points = << >> /\ polyline = << >> /\ pos = 0 /\ group = << >>
    /\ coordinates = << >> /\ lines = << >> /\ decoded = << >>

InitChunks ==
    /\ overflow_checks \in BOOLEAN
    /\ element \in Elements
    /\ pc = "new"
    /\ chunks = New
    /\ s = << >>
    /\ Idle

ParseStep ==
    /\ pc = "new"
    /\ LET r == Parse(element, overflow_checks)
       IN  /\ chunks' = r.chunks
           /\ pc' = IF r.status = "ok" THEN "parsed" ELSE r.status
    /\ UNCHANGED <<overflow_checks, element, s, precision, delta, value,
                   points, polyline, pos, group, coordinates, lines, decoded>>

StringStep ==
    /\ pc = "parsed"
    /\ LET r == String(chunks)
       IN  /\ chunks' = r.chunks
           /\ s' = r.s
    /\ pc' = "rendered"
    /\ UNCHANGED <<overflow_checks, element, precision, delta, value,
                   points, polyline, pos, group, coordinates, lines, decoded>>

NextChunks == ParseStep \/ StringStep

SpecChunks == InitChunks /\ [][NextChunks]_vars

-----------------------------------------------------------------------------
(* Specification of the element codec: encode one delta, decode it back *)

Precisions == {5, 6}

Deltas ==
    ((-MaxDelta)..MaxDelta)
    \cup {38500000, -120200000, 2200000, -750000}
    \cup {2^29 - 1, 1 - 2^29, 2^29, -(2^29)}

InitElement ==
    /\ overflow_checks \in BOOLEAN
    /\ precision \in Precisions
    /\ delta \in Deltas
    /\ pc = "element"
    /\ element = 0 /\ chunks = New /\ s = << >> /\ value = 0
    /\ points = << >> /\ polyline = << >> /\ pos = 0 /\ group = << >>
    /\ coordinates = << >> /\ lines = << >> /\ decoded = << >>

NextElement == EncodeElementStep \/ DecodeElementStep

SpecElement == InitElement /\ [][NextElement]_vars

-----------------------------------------------------------------------------
(* Specification of the round trip: encode a point sequence, decode it *)

\* points whose consecutive differences are below half a unit of 10^-5,
\* points of the repository's tests, and a point with a negative coordinate
PointSet ==
    { Point(4, 0), Point(8, 0), Point(12, 0), Point(16, 0),
      Point(38500000, -120200000), Point(40700000, -120950000),
      Point(-30, 20) }

RECURSIVE SeqsUpTo(_, _)
\* the sequences of length at most n over a set
SeqsUpTo(S, n) ==
    IF n = 0 THEN { << >> }
    ELSE LET shorter == SeqsUpTo(S, n - 1)
         IN  shorter \cup { Append(q, x) : q \in shorter, x \in S }

InitCodec ==
    /\ overflow_checks \in BOOLEAN
    /\ precision \in Precisions
    /\ points \in SeqsUpTo(PointSet, MaxPoints)
    /\ pc = "start"
    /\ element = 0 /\ chunks = New /\ s = << >> /\ delta = 0 /\ value = 0
    /\ polyline = << >> /\ pos = 0 /\ group = << >>
    /\ coordinates = << >> /\ lines = << >> /\ decoded = << >>

NextCodec == EncodeStep \/ DecodeEntry \/ ScanStep \/ FinishStep

SpecCodec == InitCodec /\ [][NextCodec]_vars

-----------------------------------------------------------------------------
(* Specification of decode on arbitrary strings *)

\* a control char, '0', '?', '@', '_', 'a', DEL and U+0080
Alphabet == {10, 48, 63, 64, 95, 97, 127, 128}

\* "_p~iF~ps|U_ulLnnqC_mqNvxq`@", "a", a group of 8 chars, "ab" followed by
\* U+00E9 and '?'
LongInputs ==
    { <<95, 112, 126, 105, 70, 126, 112, 115, 124, 85, 95, 117, 108, 76, 110, 110, 113, 67, 95, 109, 113, 78, 118, 120, 113, 96, 64>>,
      <<97>>,
      <<95, 95, 95, 95, 95, 95, 95, 64, 63>>,
      <<97, 98, 233, 63, 65>> }

InputStrings == SeqsUpTo(Alphabet, MaxLen) \cup LongInputs

InitDecode ==
    /\ overflow_checks \in BOOLEAN
    /\ precision \in Precisions
    /\ polyline \in InputStrings
    /\ pc = "ready"
    /\ element = 0 /\ chunks = New /\ s = << >> /\ delta = 0 /\ value = 0
    /\ points = << >> /\ pos = 0 /\ group = << >>
    /\ coordinates = << >> /\ lines = << >> /\ decoded = << >>

NextDecode == DecodeEntry \/ ScanStep \/ FinishStep

SpecDecode == InitDecode /\ [][NextDecode]_vars

-----------------------------------------------------------------------------
(* Properties of the chunk codec *)

\* bit j of a 32-bit word, 0 <= j <= 31
Bit(x, j) == IF j = 31 THEN (IF x < 0 THEN 1 ELSE 0) ELSE (x \div (2^j)) % 2

\* position of the highest set bit plus one; 0 for the word 0
BitLength(x) ==
    IF x = 0 THEN 0
    ELSE 1 + CHOOSE j \in 0..31 : Bit(x, j) = 1 /\ \A k \in (j + 1)..31 : Bit(x, k) = 0

\* bits 5k .. 5k+4 of a word (bits above 31 are 0)
BitsOfGroup(x, k) ==
    LET b(j) == IF j <= 31 THEN Bit(x, j) ELSE 0
    IN  b(5 * k) + 2 * b(5 * k + 1) + 4 * b(5 * k + 2)
          + 8 * b(5 * k + 3) + 16 * b(5 * k + 4)

GroupsNeeded(x) == (BitLength(x) + 4) \div 5

ExpectedGroups(x) ==
    IF x = 0 THEN <<0>>
    ELSE [k \in 1..GroupsNeeded(x) |-> BitsOfGroup(x, k - 1)]

\* C6: from-integer construction terminates for every u32 value without
\* overflow, and yields [0] for 0 and otherwise exactly the
\* ceil(bitlength / 5) groups (at most 7) that cover the set bits, the
\* k-th being bits 5k..5k+4.
C6_SliceTerminatesExact ==
    /\ pc \notin {"panic", "runaway"}
    /\ pc = "parsed" => (chunks = ExpectedGroups(element) /\ Len(chunks) <= 7)

\* the loop of from-integer construction with the "remaining magnitude"
\* termination test, while (element >> i) != 0, under the same arithmetic
RECURSIVE RemainingLoop(_, _, _, _)
RemainingLoop(elem, i, chunk_slice, checks) ==
    IF i >= 32 /\ checks
    THEN [status |-> "panic", chunks |-> chunk_slice]
    ELSE IF LSR(elem, i % 32) # 0
    THEN IF Len(chunk_slice) >= MaxGroups
         THEN [status |-> "runaway", chunks |-> chunk_slice]
         ELSE RemainingLoop(elem, i + 5,
                            Append(chunk_slice, LSR(elem, i % 32) % 32), checks)
    ELSE [status |-> "ok", chunks |-> chunk_slice]

SliceRemaining(elem, checks) ==
    IF elem = 0 THEN [status |-> "ok", chunks |-> <<0>>]
    ELSE RemainingLoop(elem, 0, << >>, checks)

\* the highest set bit is the first or the last bit of a 5-bit group
OnGroupBoundary(x) == x # 0 /\ BitLength(x) % 5 \in {0, 1}

\* C7 as stated: some value whose highest set bit sits on a group boundary
\* makes the 2^i test yield one more, all-zero, group than the
\* remaining-magnitude test.
C7_TestsDifferAtBoundary ==
    pc = "parsed" =>
        \E v \in Elements :
            /\ OnGroupBoundary(v)
            /\ Slice(v, overflow_checks).status = "ok"
            /\ Slice(v, overflow_checks).chunks
                 = Append(SliceRemaining(v, overflow_checks).chunks, 0)

\* C7 amended: whenever from-integer construction returns (every value
\* below 2^30), the 2^i test and the remaining-magnitude test yield the same
\* group sequence, group boundaries included.
C7_TestsAgree ==
    pc = "parsed" =>
        /\ SliceRemaining(element, overflow_checks).status = "ok"
        /\ chunks = SliceRemaining(element, overflow_checks).chunks

C7_Witness == pc = "parsed" /\ OnGroupBoundary(element) /\ Len(chunks) >= 2

\* C8: every char rendered after from-integer construction has a code in
\* 63..126; every char but the last has the continuation bit set (95..126)
\* and the last has it clear (63..94).
C8_RenderedCharsValid ==
    pc = "rendered" =>
        /\ Len(s) >= 1
        /\ \A i \in 1..Len(s) :
              IF i < Len(s) THEN s[i] \in 95..126 ELSE s[i] \in 63..94

C8_Witness == pc = "rendered" /\ Len(s) >= 3

-----------------------------------------------------------------------------
(* Properties of the element codec *)

\* the zig-zag image of a signed integer: 2n for n >= 0, 2|n| - 1 for n < 0
ZigZag(n) == IF n >= 0 THEN 2 * n ELSE (2 * (-n)) - 1

\* delta * 10^precision rounded to the nearest integer
Scaled == RoundHalfAway(delta, Unit(precision))

\* C9: for every precision and every delta whose scaled rounded value n has
\* |n| < 2^29, the element encoder hands the chunk codec the zig-zag image
\* of n, and decoding the encoded element returns n / 10^precision.
C9_ElementRoundTrip ==
    (Scaled < 2^29 /\ Scaled > -(2^29)) =>
        /\ pc \notin {"panic", "runaway"}
        /\ pc \in {"element_encoded", "element_decoded"} => element = ZigZag(Scaled)
        /\ pc = "element_decoded" => value = Scaled * Unit(precision)

-----------------------------------------------------------------------------
(* Properties of encode and decode *)

\* every coordinate is an integer multiple of 10^-p
AllExact(pts, p) ==
    \A k \in 1..Len(pts) :
        pts[k].latitude % Unit(p) = 0 /\ pts[k].longitude % Unit(p) = 0

\* the points rounded to p decimal digits
RoundedPoints(pts, p) ==
    [k \in 1..Len(pts) |->
        [latitude |-> RoundHalfAway(pts[k].latitude, Unit(p)) * Unit(p),
         longitude |-> RoundHalfAway(pts[k].longitude, Unit(p)) * Unit(p)]]

\* C1: for points whose coordinates are exactly expressible with p decimal
\* digits, encode followed by decode returns a sequence of the same length
\* whose k-th point is the k-th input point rounded to p digits.
C1_RoundTrip ==
    AllExact(points, precision) =>
        /\ pc \notin {"panic", "runaway"}
        /\ pc = "done" =>
              /\ Len(decoded) = Len(points)
              /\ decoded = RoundedPoints(points, precision)

C1_Witness ==
    /\ pc = "done"
    /\ AllExact(points, precision)
    /\ precision = 5
    /\ Len(points) >= 3
    /\ points[1].latitude > 1000000
    /\ points[2].latitude < points[1].latitude
    /\ points[3] = points[2]
    /\ Len(polyline) > 2 * Len(points)

\* the standard rendering of one zig-zag value: 5-bit groups, lowest first,
\* 0x20 set on every group but the last, 63 added to every group
StandardGroups(z) ==
    LET n == IF z = 0 THEN 1 ELSE GroupsNeeded(z)
    IN  [k \in 1..n |->
            BitsOfGroup(z, k - 1) + (IF k < n THEN 32 ELSE 0) + 63]

RECURSIVE StandardLoop(_, _, _, _, _)
StandardLoop(pts, k, prev_lat, prev_lon, p) ==
    IF k > Len(pts) THEN << >>
    ELSE LET lat == RoundHalfAway(pts[k].latitude, Unit(p))
             lon == RoundHalfAway(pts[k].longitude, Unit(p))
         IN  StandardGroups(ZigZag(lat - prev_lat))
               \o StandardGroups(ZigZag(lon - prev_lon))
               \o StandardLoop(pts, k + 1, lat, lon, p)

\* the Encoded Polyline Algorithm Format string of a point sequence:
\* differences of consecutive rounded integers, the first against 0
StandardPolyline(pts, p) == StandardLoop(pts, 1, 0, 0, p)

\* C2: encode returns byte for byte the standard Encoded Polyline Algorithm
\* Format string of the points.
C2_StandardFormat ==
    pc = "ready" => polyline = StandardPolyline(points, precision)

Abs(x) == IF x < 0 THEN -x ELSE x

\* C5: every coordinate of decode(encode(points)) stays within one unit of
\* 10^-p of the input coordinate rounded to p digits, whatever the number
\* of points.
C5_NoDrift ==
    pc = "done" =>
        /\ Len(decoded) = Len(points)
        /\ \A k \in 1..Len(points) :
              /\ Abs(decoded[k].latitude
                       - RoundedPoints(points, precision)[k].latitude)
                   <= Unit(precision)
              /\ Abs(decoded[k].longitude
                       - RoundedPoints(points, precision)[k].longitude)
                   <= Unit(precision)

\* C3: decode never reaches an error state, whatever the input string.
C3_DecodeNeverFails == pc # "panic"

\* bit 0x20 of code point minus 63 is clear
ContinuationClear(c) == Bit(c - 63, 5) = 0

\* the number of chars of a string whose continuation bit is clear
Terminators(str) == Cardinality({i \in 1..Len(str) : ContinuationClear(str[i])})

\* C4: for every input string decode returns floor(k / 2) points, k being
\* the number of chars whose continuation bit is clear; one delta is
\* emitted per such char, none for the chars after the last one.
C4_PointCount ==
    /\ pc # "panic"
    /\ pc = "done" =>
          /\ Len(coordinates) = Terminators(polyline)
          /\ Len(decoded) = Terminators(polyline) \div 2

\* zero or more chars with the continuation bit set, then one with it clear
WellFormedGroup(line) ==
    /\ line # << >>
    /\ \A i \in 1..Len(line) : ContinuationClear(line[i]) <=> i = Len(line)

\* C10: after every scanned char the group buffer holds only chars whose
\* continuation bit is set and is empty right after an emit; every group
\* handed to the element decoder is non-empty and is a run of
\* continuation-bit-set chars followed by exactly one char with the bit
\* clear, so the char parse_line leaves unmasked has bit 0x20 clear.
C10_ScannerInvariant ==
    /\ pc \in {"scan", "done"} =>
          /\ \A i \in 1..Len(group) : ~ContinuationClear(group[i])
          /\ (pos > 1 /\ ContinuationClear(polyline[pos - 1])) => group = << >>
          /\ Len(lines) = Len(coordinates)
    /\ \A j \in 1..Len(lines) :
          /\ WellFormedGroup(lines[j])
          /\ \A i \in 1..Len(lines[j]) :
                i - 1 = StrLen(lines[j]) - 1 => ContinuationClear(lines[j][i])

C10_Witness ==
    /\ pc = "scan"
    /\ Len(lines) >= 2
    /\ Len(lines[1]) >= 2
    /\ group # << >>

=============================================================================
